---- MODULE Spec2Model ----
(***************************************************************************)
(* Model of the DTR bot (src/main.py): the Google-Sheets event log, the    *)
(* roster, the wall clock and the Discord command handlers that read the   *)
(* log, check their guards and append rows.                                *)
(*                                                                         *)
(* Strings that hold times are modelled by their parts: a cell value is a  *)
(* record [k, h, m, s, p, q] where k is the shape of the text              *)
(*   "empty"  the empty string                                             *)
(*   "na"     the text N/A                                                 *)
(*   "t12s"   H:MM:SS AM/PM     "t12"  H:MM AM/PM     "t24"  HH:MM:SS      *)
(*   "raw"    any other text                                               *)
(* and h, m, s, p are the numbers and the AM/PM marker as written; q says  *)
(* whether the text starts with an apostrophe.                             *)
(* A handler is one action up to its first await that precedes a write;    *)
(* the blocking gspread calls never yield to the event loop. What a        *)
(* handler decides (the message it sends, the rows it appends) is an       *)
(* operator X_result of the state and of the call's inputs; the action X   *)
(* applies it to the sheet.                                                *)
(*                                                                         *)
(* Spec is one day of clock, half-day, manual-entry and read-only commands *)
(* with the store free to fail any read or append; SpecAll adds the roster *)
(* commands and the reminder; SpecFold reads every short log on two days;  *)
(* SpecHours starts from every day log of one user with one row per slot   *)
(* and follows it with pm_out, half_day, the reads, the reminder, a second *)
(* writer and midnight; SpecRun is the program as __main__ starts it, with *)
(* time passing; SpecTimes puts the clock at every minute of a day;        *)
(* SpecClock follows two users' days written by the clock and half-day     *)
(* commands alone.                                                         *)
(***************************************************************************)
EXTENDS Integers, Sequences, FiniteSets, TLC

VARIABLES sheet, user_names, clock, pending

vars == <<sheet, user_names, clock, pending>>

\* ---------------------------------------------------------------- bounds
MaxRows == 3
MaxPending == 2
MaxDay == 2
NumTimes == 3
MaxHoursRows == 5
MaxClockRows == 5

\* ------------------------------------------------------------- constants
AM_IN_CUTOFF == <<10, 0>>
MORNING_PERSON_CUTOFF == <<7, 44>>
REQUIRED_HOURS == 8
REMINDER_THRESHOLD_MINUTES == 5

ADMIN_IDS == {1}
UIDs == {1, 2, 3}

\* Wall-clock instants the model's clock can show: six instants of a day in
\* increasing order, then every minute of a day from 0:00 to 23:59.
DayPoints ==
  << <<0, 30>>, <<7, 30>>, <<12, 0>>, <<13, 0>>, <<17, 0>>, <<23, 59>> >>

TimePoints ==
  DayPoints \o [k \in 1..1440 |-> <<(k - 1) \div 60, (k - 1) % 60>>]

\* The place in TimePoints of the minute hour:minute.
MinuteInstant(hour, minute) == Len(DayPoints) + 1 + hour * 60 + minute

MinuteInstants == { MinuteInstant(hour, minute) : hour \in 0..23, minute \in 0..59 }

\* Calendar dates (month, day, year) of the modelled days.
Dates == << <<12, 31, 2025>>, <<1, 1, 2026>>, <<1, 2, 2026>>, <<1, 3, 2026>> >>

\* ----------------------------------------------------------- cell values
Str(k, h, m, s, p) == [k |-> k, h |-> h, m |-> m, s |-> s, p |-> p, q |-> FALSE]
Empty == Str("empty", 0, 0, 0, "")
NA == Str("na", 0, 0, 0, "")

Slots == {"AM_IN", "AM_OUT", "PM_IN", "PM_OUT"}
EmptyRecord == [AM_IN |-> Empty, AM_OUT |-> Empty, PM_IN |-> Empty, PM_OUT |-> Empty]

LabelOf == [AM_IN |-> "AM - Time In", AM_OUT |-> "AM - Time Out",
            PM_IN |-> "PM - Time In", PM_OUT |-> "PM - Time Out"]

\* ------------------------------------------------------------------ time
now == [hour |-> TimePoints[clock.i][1], minute |-> TimePoints[clock.i][2]]

today == Dates[clock.d]

timestamp_str == today

\* A 12-hour hour that is left at 0 for midnight and noon.
Hour12_modulo(hour) == hour % 12

Hour12(hour) == IF hour % 12 = 0 THEN 12 ELSE hour % 12

AmPm(hour) == IF hour < 12 THEN "AM" ELSE "PM"

time_for_sheets == Str("t12s", Hour12(now.hour), now.minute, 0, AmPm(now.hour))

time_for_discord == Str("t12", Hour12(now.hour), now.minute, 0, AmPm(now.hour))

strip_leading_apostrophe(s) == [s EXCEPT !.q = FALSE]

\* strptime with %I and %p: hour 1..12 and the marker give the 24-hour hour.
Hour24(v) == (v.h % 12) + (IF v.p = "PM" THEN 12 ELSE 0)

None == -1

\* Seconds since midnight of the parsed time, or None.
parse_time_from_string(v) ==
  IF v.q THEN None
  ELSE IF v.k = "t12s" /\ v.h \in 1..12 /\ v.p \in {"AM", "PM"}
    THEN Hour24(v) * 3600 + v.m * 60 + v.s
  ELSE IF v.k = "t24" /\ v.h \in 0..23
    THEN v.h * 3600 + v.m * 60 + v.s
  ELSE IF v.k = "t12" /\ v.h \in 1..12 /\ v.p \in {"AM", "PM"}
    THEN Hour24(v) * 3600 + v.m * 60
  ELSE None

\* ----------------------------------------------------------------- names
NoName == <<>>

InitialOf(w) ==
  CASE w = "Carlos" -> "C."
    [] w = "Dela" -> "D."
    [] w = "Cruz" -> "C."
    [] w = "Santos" -> "S."
    [] w = "Juan" -> "J."
    [] w = "Maria" -> "M."
    [] OTHER -> "?."

format_name_with_initials(parts) ==
  IF Len(parts) < 2 THEN parts
  ELSE IF Len(parts) = 2 THEN <<parts[1], "C.", parts[2]>>
  ELSE LET middle_parts == SubSeq(parts, 2, Len(parts) - 1)
           last_middle == middle_parts[Len(middle_parts)]
       IN IF Len(middle_parts) > 1
            THEN <<parts[1]>> \o SubSeq(middle_parts, 1, Len(middle_parts) - 1)
                   \o <<InitialOf(last_middle), parts[Len(parts)]>>
            ELSE <<parts[1], InitialOf(last_middle), parts[Len(parts)]>>

get_user_name(uid) ==
  IF user_names[uid] # NoName THEN format_name_with_initials(user_names[uid])
  ELSE NoName

\* An is_admin that takes every user of the roster for an admin.
is_admin_roster(uid) == uid \in ADMIN_IDS \/ user_names[uid] # NoName

is_admin(uid) == uid \in ADMIN_IDS

\* An is_late that is true only after the cut-off.
is_late_after_cutoff ==
  now.hour * 60 + now.minute > AM_IN_CUTOFF[1] * 60 + AM_IN_CUTOFF[2]

\* now() >= late_time, the cut-off on today's date.
is_late ==
  now.hour * 60 + now.minute >= AM_IN_CUTOFF[1] * 60 + AM_IN_CUTOFF[2]

\* ---------------------------------------------------------- reconstructor
\* A row of the sheet: Timestamp (its date part), Name, Time Clock, Input Time.
Row(ts, name, label, input) ==
  [ts |-> ts, name |-> name, label |-> label, input |-> input]

\* A reader that takes the user's rows of every day.
get_today_records_any_day(name, ok) ==
  IF ok
    THEN SelectSeq(sheet, LAMBDA r : r.name = name)
    ELSE <<>>

\* ok = FALSE: sheet.get_all_records() raised; the except branch returns [].
get_today_records(name, ok) ==
  IF ok
    THEN SelectSeq(sheet, LAMBDA r : r.name = name /\ r.ts = today)
    ELSE <<>>

\* The sheet's Input Time in the Discord form; other text passes through.
InputTimeDiscord(v) ==
  IF v = Empty THEN Empty
  ELSE IF ~v.q /\ v.k \in {"t12s", "t12"} /\ v.h \in 1..12 /\ v.p \in {"AM", "PM"}
    THEN Str("t12", Hour12(Hour24(v)), v.m, 0, AmPm(Hour24(v)))
  ELSE v

\* A reconstructor in which the first row of a slot wins: a row changes a
\* slot only while the slot is empty.
SetSlot_first_wins(record, rec) ==
  LET v == InputTimeDiscord(rec.input)
  IN IF rec.label = "AM - Time In" /\ record.AM_IN = Empty THEN [record EXCEPT !.AM_IN = v]
     ELSE IF rec.label = "AM - Time Out" /\ record.AM_OUT = Empty THEN [record EXCEPT !.AM_OUT = v]
     ELSE IF rec.label = "PM - Time In" /\ record.PM_IN = Empty THEN [record EXCEPT !.PM_IN = v]
     ELSE IF rec.label = "PM - Time Out" /\ record.PM_OUT = Empty THEN [record EXCEPT !.PM_OUT = v]
     ELSE record

SetSlot(record, rec) ==
  LET v == InputTimeDiscord(rec.input)
  IN IF rec.label = "AM - Time In" THEN [record EXCEPT !.AM_IN = v]
     ELSE IF rec.label = "AM - Time Out" THEN [record EXCEPT !.AM_OUT = v]
     ELSE IF rec.label = "PM - Time In" THEN [record EXCEPT !.PM_IN = v]
     ELSE IF rec.label = "PM - Time Out" THEN [record EXCEPT !.PM_OUT = v]
     ELSE record

RECURSIVE FoldRecords(_, _)
FoldRecords(record, rows) ==
  IF rows = <<>> THEN record
  ELSE FoldRecords(SetSlot(record, Head(rows)), Tail(rows))

get_full_record(name, ok) == FoldRecords(EmptyRecord, get_today_records(name, ok))

\* ------------------------------------------------------------- validator
\* A validator that accepts equal times in adjacent slots.
validate_time_sequence_allows_equal(record) ==
  LET times == [k \in Slots |-> parse_time_from_string(record[k])]
      has(k) == record[k] # Empty /\ times[k] # None
  IN IF has("AM_IN") /\ has("AM_OUT") /\ times["AM_OUT"] < times["AM_IN"]
       THEN "AM OUT must be after AM IN."
     ELSE IF has("AM_OUT") /\ has("PM_IN") /\ times["PM_IN"] < times["AM_OUT"]
       THEN "PM IN must be after AM OUT."
     ELSE IF has("PM_IN") /\ has("PM_OUT") /\ times["PM_OUT"] < times["PM_IN"]
       THEN "PM OUT must be after PM IN."
     ELSE ""

\* "" stands for (True, None); any other text is the message of (False, msg).
validate_time_sequence(record) ==
  LET times == [k \in Slots |-> parse_time_from_string(record[k])]
      has(k) == record[k] # Empty /\ times[k] # None
  IN IF has("AM_IN") /\ has("AM_OUT") /\ times["AM_OUT"] <= times["AM_IN"]
       THEN "AM OUT must be after AM IN."
     ELSE IF has("AM_OUT") /\ has("PM_IN") /\ times["PM_IN"] <= times["AM_OUT"]
       THEN "PM IN must be after AM OUT."
     ELSE IF has("PM_IN") /\ has("PM_OUT") /\ times["PM_OUT"] <= times["PM_IN"]
       THEN "PM OUT must be after PM IN."
     ELSE ""

\* ----------------------------------------------------------------- hours
\* An hours calculation that lets a negative span through.
calculate_hours_worked_signed(record) ==
  LET t_am_in == parse_time_from_string(record.AM_IN)
      t_am_out == parse_time_from_string(record.AM_OUT)
      t_pm_in == parse_time_from_string(record.PM_IN)
      t_pm_out == parse_time_from_string(record.PM_OUT)
      morning_seconds == t_am_out - t_am_in
      afternoon_seconds == t_pm_out - t_pm_in
  IN IF t_am_in = None \/ t_am_out = None \/ t_pm_in = None \/ t_pm_out = None THEN None
     ELSE IF morning_seconds + afternoon_seconds < 0 THEN None
     ELSE (morning_seconds + afternoon_seconds + 18) \div 36

\* Hundredths of an hour (round(total_hours, 2) times 100), or None. With
\* times on whole minutes the hours are never halfway between two hundredths.
calculate_hours_worked(record) ==
  LET t_am_in == parse_time_from_string(record.AM_IN)
      t_am_out == parse_time_from_string(record.AM_OUT)
      t_pm_in == parse_time_from_string(record.PM_IN)
      t_pm_out == parse_time_from_string(record.PM_OUT)
      morning_seconds == t_am_out - t_am_in
      afternoon_seconds == t_pm_out - t_pm_in
  IN IF t_am_in = None \/ t_am_out = None \/ t_pm_in = None \/ t_pm_out = None THEN None
     ELSE IF morning_seconds < 0 \/ afternoon_seconds < 0 THEN None
     ELSE (morning_seconds + afternoon_seconds + 18) \div 36

\* ------------------------------------------------------------ the state
\* Python truthiness of a cell value: any non-empty text.
Truthy(v) == v # Empty

Init ==
  /\ sheet = <<>>
  /\ user_names = [u \in UIDs |-> IF u = 1 THEN <<"Juan", "Dela", "Cruz">>
                                  ELSE IF u = 2 THEN <<"Maria", "Santos">>
                                  ELSE NoName]
  /\ clock = [d |-> 1, i |-> 1]
  /\ pending = <<>>

\* What a handler decides: out, the message it sends; rows, the rows it
\* appends, in order; warn, whether it sends a validation warning (and is
\* suspended in that send) before its append.
Result(out, rows, warn) == [out |-> out, rows |-> rows, warn |-> warn]

\* A handler suspended in the await that sends its validation warning, with
\* the locals it still uses when it resumes: the row it will append.
Suspended(cmd, uid, row) == [cmd |-> cmd, uid |-> uid, row |-> row]

\* A store that puts new rows on top of the sheet.
Apply_on_top(cmd, uid, r) ==
  /\ UNCHANGED <<user_names, clock>>
  /\ IF r.warn
       THEN /\ Len(pending) < MaxPending
            /\ pending' = Append(pending, Suspended(cmd, uid, r.rows[1]))
            /\ UNCHANGED sheet
       ELSE /\ sheet' = r.rows \o sheet
            /\ UNCHANGED pending

\* The effect of a handler that decided r: rows appended by sheet.append_row,
\* or the handler parked in the send of its warning.
Apply(cmd, uid, r) ==
  /\ UNCHANGED <<user_names, clock>>
  /\ IF r.warn
       THEN /\ Len(pending) < MaxPending
            /\ pending' = Append(pending, Suspended(cmd, uid, r.rows[1]))
            /\ UNCHANGED sheet
       ELSE /\ sheet' = sheet \o r.rows
            /\ UNCHANGED pending

\* --------------------------------------------------------- clock commands
\* okr: sheet.get_all_records() returns (FALSE: it raises); oka: append_row
\* returns (FALSE: it raises).
am_in_result(uid, okr, oka) ==
  LET name == get_user_name(uid)
      record == get_full_record(name, okr)
      time_sheet == time_for_sheets
  IN IF name = NoName
       THEN Result("You are not authorized to use the DTR system.", <<>>, FALSE)
     ELSE IF Truthy(record.AM_IN)
       THEN Result("You already clocked AM IN today.", <<>>, FALSE)
     ELSE IF ~oka
       THEN Result("Failed to record AM IN.", <<>>, FALSE)
     ELSE Result("recorded",
                 << Row(timestamp_str, name, "AM - Time In",
                        strip_leading_apostrophe(time_sheet)) >>, FALSE)

am_in(uid, okr, oka) == Apply("am_in", uid, am_in_result(uid, okr, oka))

\* messages.json: for each list, whether it holds a message. Without the
\* file every list is empty.
MessageKeys == {"morning_person", "normal", "late"}
MessageFiles == [MessageKeys -> BOOLEAN]

\* Python's order of tuples (hour, minute).
TupleLess(a, b) == a[1] < b[1] \/ (a[1] = b[1] /\ a[2] < b[2])

\* The minutes at which am_in reads the clock again after its append and
\* its second read of the sheet, both blocking calls: the same minute or the
\* next one (0:00 after 23:59).
LaterInstants ==
  { clock.i,
    IF clock.i \in MinuteInstants /\ clock.i + 1 \notin MinuteInstants
      THEN MinuteInstant(0, 0)
      ELSE clock.i + 1 }

\* The line am_in adds to its answer after a successful append: the list
\* random.choice draws it from, or "none". late_status is read before the
\* append, current_time at the instant later, after it.
am_in_flavor(messages, later) ==
  LET late_status == is_late
      current_time == <<TimePoints[later][1], TimePoints[later][2]>>
  IN IF TupleLess(current_time, MORNING_PERSON_CUTOFF) /\ messages["morning_person"]
       THEN "morning_person"
     ELSE IF late_status /\ messages["late"]
       THEN "late"
     ELSE IF messages["normal"]
       THEN "normal"
     ELSE "none"

\* An am_out that does not ask for AM IN first.
am_out_result_without_am_in(uid, okr, oka) ==
  LET name == get_user_name(uid)
      record == get_full_record(name, okr)
      time_sheet == time_for_sheets
      test_record == [record EXCEPT !.AM_OUT = time_sheet]
      error_msg == validate_time_sequence(test_record)
  IN IF name = NoName
       THEN Result("You are not authorized to use the DTR system.", <<>>, FALSE)
     ELSE IF Truthy(record.AM_OUT)
       THEN Result("You already clocked AM OUT today.", <<>>, FALSE)
     ELSE IF Truthy(record.PM_OUT)
       THEN Result("Your work day is already complete.", <<>>, FALSE)
     ELSE IF error_msg # ""
       THEN Result(error_msg, <<>>, FALSE)
     ELSE IF ~oka
       THEN Result("Failed to record AM OUT.", <<>>, FALSE)
     ELSE Result("recorded",
                 << Row(timestamp_str, name, "AM - Time Out",
                        strip_leading_apostrophe(time_sheet)) >>, FALSE)

\* An am_out without the check that the day is not complete.
am_out_result_no_complete_check(uid, okr, oka) ==
  LET name == get_user_name(uid)
      record == get_full_record(name, okr)
      time_sheet == time_for_sheets
      test_record == [record EXCEPT !.AM_OUT = time_sheet]
      error_msg == validate_time_sequence(test_record)
  IN IF name = NoName
       THEN Result("You are not authorized to use the DTR system.", <<>>, FALSE)
     ELSE IF ~Truthy(record.AM_IN)
       THEN Result("You must clock AM IN first.", <<>>, FALSE)
     ELSE IF Truthy(record.AM_OUT)
       THEN Result("You already clocked AM OUT today.", <<>>, FALSE)
     ELSE IF error_msg # ""
       THEN Result(error_msg, <<>>, FALSE)
     ELSE IF ~oka
       THEN Result("Failed to record AM OUT.", <<>>, FALSE)
     ELSE Result("recorded",
                 << Row(timestamp_str, name, "AM - Time Out",
                        strip_leading_apostrophe(time_sheet)) >>, FALSE)

am_out_result(uid, okr, oka) ==
  LET name == get_user_name(uid)
      record == get_full_record(name, okr)
      time_sheet == time_for_sheets
      test_record == [record EXCEPT !.AM_OUT = time_sheet]
      error_msg == validate_time_sequence(test_record)
  IN IF name = NoName
       THEN Result("You are not authorized to use the DTR system.", <<>>, FALSE)
     ELSE IF ~Truthy(record.AM_IN)
       THEN Result("You must clock AM IN first.", <<>>, FALSE)
     ELSE IF Truthy(record.AM_OUT)
       THEN Result("You already clocked AM OUT today.", <<>>, FALSE)
     ELSE IF Truthy(record.PM_OUT)
       THEN Result("Your work day is already complete.", <<>>, FALSE)
     ELSE IF error_msg # ""
       THEN Result(error_msg, <<>>, FALSE)
     ELSE IF ~oka
       THEN Result("Failed to record AM OUT.", <<>>, FALSE)
     ELSE Result("recorded",
                 << Row(timestamp_str, name, "AM - Time Out",
                        strip_leading_apostrophe(time_sheet)) >>, FALSE)

am_out(uid, okr, oka) == Apply("am_out", uid, am_out_result(uid, okr, oka))

\* A pm_in that does not consult the validator.
pm_in_result_unvalidated(uid, okr, oka) ==
  LET name == get_user_name(uid)
      record == get_full_record(name, okr)
      time_sheet == time_for_sheets
  IN IF name = NoName
       THEN Result("You are not authorized to use the DTR system.", <<>>, FALSE)
     ELSE IF ~Truthy(record.AM_OUT)
       THEN Result("You must clock AM OUT first.", <<>>, FALSE)
     ELSE IF Truthy(record.PM_IN)
       THEN Result("You already clocked PM IN today.", <<>>, FALSE)
     ELSE IF Truthy(record.PM_OUT)
       THEN Result("Your work day is already complete.", <<>>, FALSE)
     ELSE IF ~oka
       THEN Result("Failed to record PM IN.", <<>>, FALSE)
     ELSE Result("recorded",
                 << Row(timestamp_str, name, "PM - Time In",
                        strip_leading_apostrophe(time_sheet)) >>, FALSE)

pm_in_result(uid, okr, oka) ==
  LET name == get_user_name(uid)
      record == get_full_record(name, okr)
      time_sheet == time_for_sheets
      test_record == [record EXCEPT !.PM_IN = time_sheet]
      error_msg == validate_time_sequence(test_record)
  IN IF name = NoName
       THEN Result("You are not authorized to use the DTR system.", <<>>, FALSE)
     ELSE IF ~Truthy(record.AM_OUT)
       THEN Result("You must clock AM OUT first.", <<>>, FALSE)
     ELSE IF Truthy(record.PM_IN)
       THEN Result("You already clocked PM IN today.", <<>>, FALSE)
     ELSE IF Truthy(record.PM_OUT)
       THEN Result("Your work day is already complete.", <<>>, FALSE)
     ELSE IF error_msg # ""
       THEN Result(error_msg, <<>>, FALSE)
     ELSE IF ~oka
       THEN Result("Failed to record PM IN.", <<>>, FALSE)
     ELSE Result("recorded",
                 << Row(timestamp_str, name, "PM - Time In",
                        strip_leading_apostrophe(time_sheet)) >>, FALSE)

pm_in(uid, okr, oka) == Apply("pm_in", uid, pm_in_result(uid, okr, oka))

\* A pm_out whose validator blocks as it does in am_out and pm_in.
pm_out_result_blocking(uid, okr, oka) ==
  LET name == get_user_name(uid)
      record == get_full_record(name, okr)
      time_sheet == time_for_sheets
      test_record == [record EXCEPT !.PM_OUT = time_sheet]
      error_msg == validate_time_sequence(test_record)
      row == Row(timestamp_str, name, "PM - Time Out", strip_leading_apostrophe(time_sheet))
  IN IF name = NoName
       THEN Result("You are not authorized to use the DTR system.", <<>>, FALSE)
     ELSE IF ~Truthy(record.PM_IN)
       THEN Result("You must clock PM IN first.", <<>>, FALSE)
     ELSE IF Truthy(record.PM_OUT)
       THEN Result("Your work day is already complete.", <<>>, FALSE)
     ELSE IF error_msg # ""
       THEN Result(error_msg, <<>>, FALSE)
     ELSE IF ~oka
       THEN Result("Failed to record PM OUT.", <<>>, FALSE)
     ELSE Result("recorded", <<row>>, FALSE)

\* pm_out up to its first await after the read: the whole handler when the
\* proposed record validates (oka decides its append), otherwise up to the
\* send of the warning, with the append left to resume_after_warning.
pm_out_result(uid, okr, oka) ==
  LET name == get_user_name(uid)
      record == get_full_record(name, okr)
      time_sheet == time_for_sheets
      test_record == [record EXCEPT !.PM_OUT = time_sheet]
      error_msg == validate_time_sequence(test_record)
      row == Row(timestamp_str, name, "PM - Time Out", strip_leading_apostrophe(time_sheet))
  IN IF name = NoName
       THEN Result("You are not authorized to use the DTR system.", <<>>, FALSE)
     ELSE IF ~Truthy(record.PM_IN)
       THEN Result("You must clock PM IN first.", <<>>, FALSE)
     ELSE IF Truthy(record.PM_OUT)
       THEN Result("Your work day is already complete.", <<>>, FALSE)
     ELSE IF error_msg # ""
       THEN Result("Time validation warning", <<row>>, TRUE)
     ELSE IF ~oka
       THEN Result("Failed to record PM OUT.", <<>>, FALSE)
     ELSE Result("recorded", <<row>>, FALSE)

pm_out(uid, okr, oka) == Apply("pm_out", uid, pm_out_result(uid, okr, oka))

RemoveAt(seq, i) == SubSeq(seq, 1, i - 1) \o SubSeq(seq, i + 1, Len(seq))

\* The rest of pm_out or manual_entry once the warning was sent: the append
\* of the row. pm_out took its timestamp before the await, manual_entry
\* takes it after. A reminder pass that comes back from user.send goes on
\* with its loop and appends nothing.
resume_result(i, oka) ==
  LET row == IF pending[i].cmd = "manual_entry"
               THEN [pending[i].row EXCEPT !.ts = timestamp_str]
               ELSE pending[i].row
  IN IF pending[i].cmd = "reminder_loop" THEN Result("", <<>>, FALSE)
     ELSE IF ~oka THEN Result("Failed to record.", <<>>, FALSE)
     ELSE Result("recorded", <<row>>, FALSE)

resume_after_warning(i, oka) ==
  LET r == resume_result(i, oka)
  IN /\ UNCHANGED <<user_names, clock>>
     /\ pending' = RemoveAt(pending, i)
     /\ sheet' = sheet \o r.rows

\* The send of the warning raised (Discord refused it): the handler ends in
\* on_command_error before its append.
warning_send_failed(i) ==
  /\ UNCHANGED <<sheet, user_names, clock>>
  /\ pending' = RemoveAt(pending, i)

\* --------------------------------------------------------------- half day
Halves == {"morning", "afternoon", "evening"}

\* ok1, ok2: whether the first and the second append_row return.
half_day_result(uid, half, okr, ok1, ok2) ==
  LET name == get_user_name(uid)
      record == get_full_record(name, okr)
      timestamp == timestamp_str
  IN IF name = NoName
       THEN Result("You are not authorized to use the DTR system.", <<>>, FALSE)
     ELSE IF half \notin {"morning", "afternoon"}
       THEN Result("Invalid option.", <<>>, FALSE)
     ELSE IF half = "morning"
       THEN IF ~Truthy(record.AM_IN) \/ ~Truthy(record.AM_OUT)
              THEN Result("You must clock AM IN and AM OUT first.", <<>>, FALSE)
            ELSE IF Truthy(record.PM_IN) \/ Truthy(record.PM_OUT)
              THEN Result("PM entries already exist.", <<>>, FALSE)
            ELSE IF ~ok1
              THEN Result("Failed to record half-day.", <<>>, FALSE)
            ELSE IF ~ok2
              THEN Result("Failed to record half-day.",
                          << Row(timestamp, name, "PM - Time In", NA) >>, FALSE)
            ELSE Result("Half-Day Recorded (Morning)",
                        << Row(timestamp, name, "PM - Time In", NA),
                           Row(timestamp, name, "PM - Time Out", NA) >>, FALSE)
     ELSE IF Truthy(record.AM_IN) \/ Truthy(record.AM_OUT)
       THEN Result("AM entries already exist.", <<>>, FALSE)
     ELSE IF Truthy(record.PM_IN) \/ Truthy(record.PM_OUT)
       THEN Result("PM entries already exist.", <<>>, FALSE)
     ELSE IF ~ok1
       THEN Result("Failed to record half-day.", <<>>, FALSE)
     ELSE IF ~ok2
       THEN Result("Failed to record half-day.",
                   << Row(timestamp, name, "AM - Time In", NA) >>, FALSE)
     ELSE Result("Afternoon Half-Day Set",
                 << Row(timestamp, name, "AM - Time In", NA),
                    Row(timestamp, name, "AM - Time Out", NA) >>, FALSE)

half_day(uid, half, okr, ok1, ok2) ==
  Apply("half_day", uid, half_day_result(uid, half, okr, ok1, ok2))

\* ----------------------------------------------------------- manual entry
TimeTypes == {"am_in", "am_out", "pm_in", "pm_out", "lunch"}

valid_types == [am_in |-> "AM - Time In", am_out |-> "AM - Time Out",
                pm_in |-> "PM - Time In", pm_out |-> "PM - Time Out"]

\* time_type.upper()
Upper(time_type) ==
  CASE time_type = "am_in" -> "AM_IN"
    [] time_type = "am_out" -> "AM_OUT"
    [] time_type = "pm_in" -> "PM_IN"
    [] time_type = "pm_out" -> "PM_OUT"

\* The time texts an admin types: 12:00 PM (quoted), and 8:30, which is what
\* discord.py passes for an unquoted 8:30 AM.
ManualTimes == { Str("t12", 12, 0, 0, "PM"), Str("raw", 8, 30, 0, "") }

\* A manual_entry that leaves a slot that already holds a value alone.
manual_entry_result_no_overwrite(admin, target, time_type, time_value, okr, oka) ==
  LET parsed_time == parse_time_from_string(time_value)
      hour == parsed_time \div 3600
      minute == (parsed_time % 3600) \div 60
      time_sheet == Str("t12s", Hour12(hour), minute, 0, AmPm(hour))
      name == format_name_with_initials(user_names[target])
      record == get_full_record(name, okr)
      test_record == [record EXCEPT ![Upper(time_type)] = time_sheet]
      error_msg == validate_time_sequence(test_record)
      row == Row(timestamp_str, name, valid_types[time_type],
                 strip_leading_apostrophe(time_sheet))
  IN IF ~is_admin(admin)
       THEN Result("This command is only available to admins.", <<>>, FALSE)
     ELSE IF user_names[target] = NoName
       THEN Result("is not in the system.", <<>>, FALSE)
     ELSE IF time_type \notin DOMAIN valid_types
       THEN Result("Invalid time type.", <<>>, FALSE)
     ELSE IF parsed_time = None
       THEN Result("Invalid time format.", <<>>, FALSE)
     ELSE IF Truthy(record[Upper(time_type)])
       THEN Result("Entry already exists.", <<>>, FALSE)
     ELSE IF error_msg # ""
       THEN Result("Time Validation Warning", <<row>>, TRUE)
     ELSE IF ~oka
       THEN Result("Failed to add entry.", <<>>, FALSE)
     ELSE Result("Manual Entry Added", <<row>>, FALSE)

manual_entry_result(admin, target, time_type, time_value, okr, oka) ==
  LET parsed_time == parse_time_from_string(time_value)
      hour == parsed_time \div 3600
      minute == (parsed_time % 3600) \div 60
      time_sheet == Str("t12s", Hour12(hour), minute, 0, AmPm(hour))
      name == format_name_with_initials(user_names[target])
      record == get_full_record(name, okr)
      test_record == [record EXCEPT ![Upper(time_type)] = time_sheet]
      error_msg == validate_time_sequence(test_record)
      row == Row(timestamp_str, name, valid_types[time_type],
                 strip_leading_apostrophe(time_sheet))
  IN IF ~is_admin(admin)
       THEN Result("This command is only available to admins.", <<>>, FALSE)
     ELSE IF user_names[target] = NoName
       THEN Result("is not in the system.", <<>>, FALSE)
     ELSE IF time_type \notin DOMAIN valid_types
       THEN Result("Invalid time type.", <<>>, FALSE)
     ELSE IF parsed_time = None
       THEN Result("Invalid time format.", <<>>, FALSE)
     ELSE IF error_msg # ""
       THEN Result("Time Validation Warning", <<row>>, TRUE)
     ELSE IF ~oka
       THEN Result("Failed to add entry.", <<>>, FALSE)
     ELSE Result("Manual Entry Added", <<row>>, FALSE)

manual_entry(admin, target, time_type, time_value, okr, oka) ==
  Apply("manual_entry", admin,
        manual_entry_result(admin, target, time_type, time_value, okr, oka))

\* ------------------------------------------------------- read-only commands
\* A status that logs the view it showed.
status_result_logging(uid, okr) ==
  LET name == get_user_name(uid)
      record == get_full_record(name, okr)
  IN IF name = NoName
       THEN Result("You are not authorized to use the DTR system.", <<>>, FALSE)
     ELSE IF \A k \in Slots : ~Truthy(record[k])
       THEN Result("No DTR record for today yet.", <<>>, FALSE)
     ELSE Result("shown", << Row(timestamp_str, name, "Status", Empty) >>, FALSE)

status_result(uid, okr) ==
  LET name == get_user_name(uid)
      record == get_full_record(name, okr)
  IN IF name = NoName
       THEN Result("You are not authorized to use the DTR system.", <<>>, FALSE)
     ELSE IF \A k \in Slots : ~Truthy(record[k])
       THEN Result("No DTR record for today yet.", <<>>, FALSE)
     ELSE Result("shown", <<>>, FALSE)

status(uid, okr) == Apply("status", uid, status_result(uid, okr))

view_dtr_result(admin, target, okr) ==
  LET name == format_name_with_initials(user_names[target])
      record == get_full_record(name, okr)
  IN IF ~is_admin(admin)
       THEN Result("This command is only available to admins.", <<>>, FALSE)
     ELSE IF user_names[target] = NoName
       THEN Result("is not in the system.", <<>>, FALSE)
     ELSE IF \A k \in Slots : ~Truthy(record[k])
       THEN Result("has no DTR record for today yet.", <<>>, FALSE)
     ELSE Result("shown", <<>>, FALSE)

view_dtr(admin, target, okr) == Apply("view_dtr", admin, view_dtr_result(admin, target, okr))

\* ------------------------------------------------------------ hours reports
\* Python's round() of the quotient a / b of naturals: to the nearest whole
\* number, a half to the even one.
RoundHalfEven(a, b) ==
  LET q == a \div b
      r == a % b
  IN IF 2 * r > b \/ (2 * r = b /\ q % 2 = 1) THEN q + 1 ELSE q

\* hours is a count of seconds (1/3600 of an hour); the display is the pair
\* of whole hours and minutes of "{hours_int}h {minutes}m". int() truncates
\* towards zero, so a negative span shows both parts negative.
format_hours_display(hours) ==
  IF hours >= 0
    THEN [h |-> hours \div 3600, m |-> RoundHalfEven(hours % 3600, 60)]
    ELSE [h |-> 0 - ((0 - hours) \div 3600),
          m |-> 0 - RoundHalfEven((0 - hours) % 3600, 60)]

NoDisplay == [h |-> None, m |-> None]

\* The part of a response that follows the four slots: kind says which
\* lines are there ("none": no line; "total": Total Hours Worked and the
\* requirement line; "half-day": Half-Day and Morning Hours; "complete":
\* Complete DTR for today!), hours the duration shown, note the requirement
\* line and shortage the undertime shown.
Report(kind, hours, note, shortage) ==
  [kind |-> kind, hours |-> hours, note |-> note, shortage |-> shortage]

NoReport == Report("none", NoDisplay, "", NoDisplay)

\* Total Hours Worked with the requirement line, for hours_worked in
\* hundredths of an hour.
TotalReport(hours_worked) ==
  IF hours_worked >= REQUIRED_HOURS * 100
    THEN Report("total", format_hours_display(hours_worked * 36),
                "Completed 8-hour requirement!", NoDisplay)
    ELSE Report("total", format_hours_display(hours_worked * 36), "Undertime",
                format_hours_display((REQUIRED_HOURS * 100 - hours_worked) * 36))

\* "if hours_worked:" is false for None and for 0.0.
pm_out_report(record) ==
  LET hours_worked == calculate_hours_worked(record)
  IN IF hours_worked # None /\ hours_worked # 0
       THEN TotalReport(hours_worked)
       ELSE Report("complete", NoDisplay, "", NoDisplay)

all_slots(record) == \A k \in Slots : Truthy(record[k])

status_report(record) ==
  LET hours_worked == calculate_hours_worked(record)
  IN IF all_slots(record) /\ hours_worked # None /\ hours_worked # 0
       THEN TotalReport(hours_worked)
       ELSE NoReport

view_dtr_report(record) ==
  LET t_am_in == parse_time_from_string(record.AM_IN)
      t_am_out == parse_time_from_string(record.AM_OUT)
      hours_worked == calculate_hours_worked(record)
  IN IF ~all_slots(record) THEN NoReport
     ELSE IF record.PM_IN = NA \/ record.PM_OUT = NA
       THEN IF t_am_in # None /\ t_am_out # None
              THEN Report("half-day", format_hours_display(t_am_out - t_am_in), "", NoDisplay)
              ELSE NoReport
     ELSE IF hours_worked # None /\ hours_worked # 0
       THEN TotalReport(hours_worked)
     ELSE NoReport

\* The answer of half_day morning after its appends, from the record read
\* before them: Half-Day Recorded (Morning), Morning Hours when both AM
\* slots parse, PM Times: N/A.
half_day_report(record) ==
  LET t_am_in == parse_time_from_string(record.AM_IN)
      t_am_out == parse_time_from_string(record.AM_OUT)
  IN IF t_am_in # None /\ t_am_out # None
       THEN Report("half-day", format_hours_display(t_am_out - t_am_in), "", NoDisplay)
       ELSE Report("half-day", NoDisplay, "", NoDisplay)

\* ---------------------------------------------------------- roster commands
add_user(admin, target, full_name) ==
  /\ UNCHANGED <<sheet, clock, pending>>
  /\ IF ~is_admin(admin) THEN UNCHANGED user_names
     ELSE IF user_names[target] # NoName THEN UNCHANGED user_names
     ELSE user_names' = [user_names EXCEPT ![target] = full_name]

change_name(admin, target, new_name) ==
  /\ UNCHANGED <<sheet, clock, pending>>
  /\ IF ~is_admin(admin) THEN UNCHANGED user_names
     ELSE IF user_names[target] = NoName THEN UNCHANGED user_names
     ELSE user_names' = [user_names EXCEPT ![target] = new_name]

remove_user(admin, target) ==
  /\ UNCHANGED <<sheet, clock, pending>>
  /\ IF ~is_admin(admin) THEN UNCHANGED user_names
     ELSE IF user_names[target] = NoName THEN UNCHANGED user_names
     ELSE user_names' = [user_names EXCEPT ![target] = NoName]

\* ---------------------------------------------------------------- reminder
\* A reminder that does not look at PM_OUT: it goes on reminding a user who
\* has clocked out.
reminder_result_after_pm_out(uid, okr, found) ==
  LET name == format_name_with_initials(user_names[uid])
      record == get_full_record(name, okr)
      hours_worked == calculate_hours_worked(record)
      t_am_in == parse_time_from_string(record.AM_IN)
      t_am_out == parse_time_from_string(record.AM_OUT)
      t_pm_in == parse_time_from_string(record.PM_IN)
  IN IF ~found THEN Result("", <<>>, FALSE)
     ELSE IF ~(Truthy(record.AM_IN) /\ Truthy(record.AM_OUT))
       THEN Result("", <<>>, FALSE)
     ELSE IF record.PM_IN = NA \/ record.PM_OUT = NA
       THEN Result("", <<>>, FALSE)
     ELSE IF ~Truthy(record.PM_IN)
       THEN Result("", <<>>, FALSE)
     ELSE IF hours_worked = None /\ t_am_in # None /\ t_am_out # None /\ t_pm_in # None
       THEN Result("TypeError", <<>>, FALSE)
     ELSE IF /\ hours_worked # None
             /\ hours_worked # 0
             /\ (REQUIRED_HOURS * 100 - hours_worked) * 60 <= REMINDER_THRESHOLD_MINUTES * 100
       THEN Result("Don't forget to !pm_out to complete your DTR.", <<>>, FALSE)
     ELSE Result("", <<>>, FALSE)

\* The body of reminder_loop for one entry of the roster. found: whether
\* bot.get_user returns the account. now() carries the time zone and the
\* parsed PM_IN does not, so their difference raises TypeError.
reminder_result(uid, okr, found) ==
  LET name == format_name_with_initials(user_names[uid])
      record == get_full_record(name, okr)
      hours_worked == calculate_hours_worked(record)
      t_am_in == parse_time_from_string(record.AM_IN)
      t_am_out == parse_time_from_string(record.AM_OUT)
      t_pm_in == parse_time_from_string(record.PM_IN)
  IN IF ~found THEN Result("", <<>>, FALSE)
     ELSE IF ~(Truthy(record.AM_IN) /\ Truthy(record.AM_OUT))
       THEN Result("", <<>>, FALSE)
     ELSE IF record.PM_IN = NA \/ record.PM_OUT = NA
       THEN Result("", <<>>, FALSE)
     ELSE IF ~(Truthy(record.PM_IN) /\ ~Truthy(record.PM_OUT))
       THEN Result("", <<>>, FALSE)
     ELSE IF hours_worked = None /\ t_am_in # None /\ t_am_out # None /\ t_pm_in # None
       THEN Result("TypeError", <<>>, FALSE)
     ELSE IF /\ hours_worked # None
             /\ hours_worked # 0
             /\ (REQUIRED_HOURS * 100 - hours_worked) * 60 <= REMINDER_THRESHOLD_MINUTES * 100
       THEN Result("Don't forget to !pm_out to complete your DTR.", <<>>, FALSE)
     ELSE Result("", <<>>, FALSE)

\* No code schedules reminder_loop (bot.run is the only task the program
\* starts); SpecAll lets its body run so that what holds of every operation
\* is checked of it too. A pass that emits the reminder is suspended in
\* "await user.send" and noted in pending with the notification in the
\* place of a row.
reminder_loop(uid, okr, found) ==
  LET r == reminder_result(uid, okr, found)
      name == format_name_with_initials(user_names[uid])
  IN /\ user_names[uid] # NoName
     /\ UNCHANGED <<sheet, user_names, clock>>
     /\ IF r.out = "Don't forget to !pm_out to complete your DTR."
          THEN /\ Len(pending) < MaxPending
               /\ pending' = Append(pending,
                                    Suspended("reminder_loop", uid,
                                              Row(timestamp_str, name, r.out, Empty)))
          ELSE UNCHANGED pending

\* ------------------------------------------------------------------ clock
\* The wall clock moves on to the next modelled instant of the day.
Tick ==
  /\ clock.i < NumTimes
  /\ clock' = [clock EXCEPT !.i = clock.i + 1]
  /\ UNCHANGED <<sheet, user_names, pending>>

\* Midnight passes.
NextDay ==
  /\ clock.d < MaxDay
  /\ clock' = [d |-> clock.d + 1, i |-> 1]
  /\ UNCHANGED <<sheet, user_names, pending>>

\* The wall clock moves on through the six instants of the day.
TickDay ==
  /\ clock.i < Len(DayPoints)
  /\ clock' = [clock EXCEPT !.i = clock.i + 1]
  /\ UNCHANGED <<sheet, user_names, pending>>

\* ------------------------------------------------------------ the program
\* The model follows the sheet up to a number of rows: a step of A that
\* leaves at most n rows in it.
Within(n, A) == A /\ Len(sheet') <= n

\* The callers of the commands: 1 is an admin, 2 a roster user, 3 a stranger.
Callers == {2, 3}
AdminCallers == {1, 2}
Targets == {2, 3}

Next ==
  \/ \E uid \in Callers, okr \in BOOLEAN, oka \in BOOLEAN : Within(MaxRows, am_in(uid, okr, oka))
  \/ \E uid \in Callers, okr \in BOOLEAN, oka \in BOOLEAN : Within(MaxRows, am_out(uid, okr, oka))
  \/ \E uid \in Callers, okr \in BOOLEAN, oka \in BOOLEAN : Within(MaxRows, pm_in(uid, okr, oka))
  \/ \E uid \in Callers, okr \in BOOLEAN, oka \in BOOLEAN : Within(MaxRows, pm_out(uid, okr, oka))
  \/ \E i \in DOMAIN pending, oka \in BOOLEAN : Within(MaxRows, resume_after_warning(i, oka))
  \/ \E i \in DOMAIN pending : warning_send_failed(i)
  \/ \E uid \in Callers, half \in Halves, okr \in BOOLEAN, ok1 \in BOOLEAN, ok2 \in BOOLEAN :
       Within(MaxRows, half_day(uid, half, okr, ok1, ok2))
  \/ \E admin \in AdminCallers, target \in Targets, time_type \in TimeTypes,
        time_value \in ManualTimes, okr \in BOOLEAN, oka \in BOOLEAN :
       Within(MaxRows, manual_entry(admin, target, time_type, time_value, okr, oka))
  \/ \E uid \in Callers, okr \in BOOLEAN : status(uid, okr)
  \/ \E admin \in AdminCallers, target \in Targets, okr \in BOOLEAN : view_dtr(admin, target, okr)
  \/ Tick

Spec == Init /\ [][Next]_vars

\* Every operation of the program: the commands of Spec issued by the
\* roster user 2 and the admin 1 with the store answering reads, the roster
\* commands on user 3 and the reminder.
NextAll ==
  \/ \E oka \in BOOLEAN : Within(MaxRows, am_in(2, TRUE, oka))
  \/ \E oka \in BOOLEAN : Within(MaxRows, am_out(2, TRUE, oka))
  \/ \E oka \in BOOLEAN : Within(MaxRows, pm_in(2, TRUE, oka))
  \/ \E oka \in BOOLEAN : Within(MaxRows, pm_out(2, TRUE, oka))
  \/ \E i \in DOMAIN pending, oka \in BOOLEAN : Within(MaxRows, resume_after_warning(i, oka))
  \/ \E i \in DOMAIN pending : warning_send_failed(i)
  \/ \E half \in Halves, ok1 \in BOOLEAN, ok2 \in BOOLEAN : Within(MaxRows, half_day(2, half, TRUE, ok1, ok2))
  \/ \E time_type \in TimeTypes, time_value \in ManualTimes, oka \in BOOLEAN :
       Within(MaxRows, manual_entry(1, 2, time_type, time_value, TRUE, oka))
  \/ \E uid \in Callers, okr \in BOOLEAN : status(uid, okr)
  \/ \E target \in Targets, okr \in BOOLEAN : view_dtr(1, target, okr)
  \/ \E admin \in AdminCallers : add_user(admin, 3, <<"Maria", "Cruz", "Santos">>)
  \/ \E admin \in AdminCallers : change_name(admin, 3, <<"Carlos", "Santos">>)
  \/ \E admin \in AdminCallers : remove_user(admin, 3)
  \/ \E uid \in UIDs, okr \in BOOLEAN, found \in BOOLEAN : reminder_loop(uid, okr, found)
  \/ Tick

SpecAll == Init /\ [][NextAll]_vars

\* The reconstructor over the logs the commands can write: every sequence of
\* up to MaxRows rows on two days, read on each day. The first user's rows
\* take every slot, two times and N/A; the second user's rows are there to be
\* filtered out of the first user's record and the other way round.
BoundedSeq(S, n) == UNION { [1..k -> S] : k \in 0..n }

FoldNames_first == format_name_with_initials(<<"Juan", "Dela", "Cruz">>)

FoldNames ==
  { FoldNames_first, format_name_with_initials(<<"Maria", "Santos">>) }

FoldRows ==
  { Row(Dates[d], FoldNames_first, LabelOf[k],
        Str("t12s", Hour12(t[1]), t[2], 0, AmPm(t[1]))) :
      d \in {1, 2}, k \in Slots, t \in {TimePoints[1], TimePoints[4]} }
  \cup { Row(Dates[d], FoldNames_first, "AM - Time In", NA) : d \in {1, 2} }
  \cup { Row(Dates[d], name, "AM - Time In",
             Str("t12s", Hour12(TimePoints[4][1]), TimePoints[4][2], 0,
                 AmPm(TimePoints[4][1]))) :
           d \in {1, 2}, name \in FoldNames \ {FoldNames_first} }

InitFold ==
  /\ sheet \in BoundedSeq(FoldRows, MaxRows)
  /\ user_names = [u \in UIDs |-> IF u = 1 THEN <<"Juan", "Dela", "Cruz">>
                                  ELSE IF u = 2 THEN <<"Maria", "Santos">>
                                  ELSE NoName]
  /\ clock = [d |-> 1, i |-> 1]
  /\ pending = <<>>

NextFold ==
  \/ \E uid \in UIDs, okr \in BOOLEAN : status(uid, okr)
  \/ \E target \in UIDs, okr \in BOOLEAN : view_dtr(1, target, okr)
  \/ NextDay

SpecFold == InitFold /\ [][NextFold]_vars

\* One user's day at its afternoon: the log holds at most one row per slot of
\* user 2, in slot order, written by the clock commands, by half_day or by
\* manual_entry (any time in any slot); the commands that read the record,
\* pm_out, half_day, a second writer and midnight follow.
HoursTimes == { <<7, 30>>, <<8, 0>>, <<12, 0>>, <<13, 5>>, <<13, 30>>, <<17, 0>> }

HoursInstants == {4, 5, 6}

HoursName == format_name_with_initials(<<"Maria", "Santos">>)

\* What a slot of the log holds: no row (Empty), a time or N/A.
HoursCells ==
  { Str("t12s", Hour12(t[1]), t[2], 0, AmPm(t[1])) : t \in HoursTimes } \cup {Empty, NA}

\* half_day writes AM - Time Out N/A after AM - Time In N/A, PM - Time Out
\* N/A after PM - Time In N/A, and the PM rows only over a record whose AM
\* slots are not empty.
HoursRecords ==
  { r \in [Slots -> HoursCells] :
      /\ r["AM_OUT"] = NA => r["AM_IN"] = NA
      /\ r["PM_OUT"] = NA => r["PM_IN"] = NA
      /\ r["PM_IN"] = NA => r["AM_IN"] # Empty /\ r["AM_OUT"] # Empty }

SlotOrder == <<"AM_IN", "AM_OUT", "PM_IN", "PM_OUT">>

RECURSIVE HoursLog(_, _)
HoursLog(r, i) ==
  IF i > Len(SlotOrder) THEN <<>>
  ELSE IF r[SlotOrder[i]] = Empty THEN HoursLog(r, i + 1)
  ELSE << Row(Dates[1], HoursName, LabelOf[SlotOrder[i]], r[SlotOrder[i]]) >>
         \o HoursLog(r, i + 1)

InitHours ==
  /\ \E r \in HoursRecords : sheet = HoursLog(r, 1)
  /\ user_names = [u \in UIDs |-> IF u = 1 THEN <<"Juan", "Dela", "Cruz">>
                                  ELSE IF u = 2 THEN <<"Maria", "Santos">>
                                  ELSE NoName]
  /\ \E i \in HoursInstants : clock = [d |-> 1, i |-> i]
  /\ pending = <<>>

NextHours ==
  \/ \E okr \in BOOLEAN, oka \in BOOLEAN : Within(MaxHoursRows, pm_out(2, okr, oka))
  \/ \E i \in DOMAIN pending, oka \in BOOLEAN :
       Within(MaxHoursRows, resume_after_warning(i, oka))
  \/ \E i \in DOMAIN pending : warning_send_failed(i)
  \/ \E half \in Halves, ok1 \in BOOLEAN, ok2 \in BOOLEAN :
       Within(MaxHoursRows, half_day(2, half, TRUE, ok1, ok2))
  \/ Within(MaxHoursRows, am_in(1, TRUE, TRUE))
  \/ \E okr \in BOOLEAN : status(2, okr)
  \/ \E okr \in BOOLEAN : view_dtr(1, 2, okr)
  \/ \E uid \in UIDs, okr \in BOOLEAN, found \in BOOLEAN : reminder_loop(uid, okr, found)
  \/ NextDay

SpecHours == InitHours /\ [][NextHours]_vars

\* The program as __main__ starts it, from the afternoon of user 2's day:
\* bot.run serves the commands and on_ready only prints; no task runs
\* reminder_loop. Time passes, and a handler suspended in a send is resumed
\* or fails.
NextRun ==
  \/ \E okr \in BOOLEAN, oka \in BOOLEAN : Within(MaxHoursRows, pm_out(2, okr, oka))
  \/ \E i \in DOMAIN pending, oka \in BOOLEAN :
       Within(MaxHoursRows, resume_after_warning(i, oka))
  \/ \E i \in DOMAIN pending : warning_send_failed(i)
  \/ \E okr \in BOOLEAN : status(2, okr)
  \/ add_user(1, 3, <<"Maria", "Cruz", "Santos">>)
  \/ remove_user(1, 3)
  \/ TickDay

SpecRun == InitHours /\ [][NextRun]_vars /\ WF_vars(TickDay)

\* The days of the roster users 1 and 2 as the clock and half-day commands
\* write them: the store answers every read, no manual_entry and no roster
\* command runs, the clock moves forward through the day and over midnight.
ClockUsers == {1, 2}

NextClock ==
  \/ \E uid \in ClockUsers, oka \in BOOLEAN : Within(MaxClockRows, am_in(uid, TRUE, oka))
  \/ \E uid \in ClockUsers, oka \in BOOLEAN : Within(MaxClockRows, am_out(uid, TRUE, oka))
  \/ \E uid \in ClockUsers, oka \in BOOLEAN : Within(MaxClockRows, pm_in(uid, TRUE, oka))
  \/ \E uid \in ClockUsers, oka \in BOOLEAN : Within(MaxClockRows, pm_out(uid, TRUE, oka))
  \/ \E i \in DOMAIN pending, oka \in BOOLEAN :
       Within(MaxClockRows, resume_after_warning(i, oka))
  \/ \E i \in DOMAIN pending : warning_send_failed(i)
  \/ \E uid \in ClockUsers, half \in Halves, ok1 \in BOOLEAN, ok2 \in BOOLEAN :
       Within(MaxClockRows, half_day(uid, half, TRUE, ok1, ok2))
  \/ Tick
  \/ NextDay

SpecClock == Init /\ [][NextClock]_vars

\* The clock at every minute of one day: am_in of the roster user 2 and of
\* the stranger 3, and the commands that show the record.
InitTimes ==
  /\ sheet = <<>>
  /\ user_names = [u \in UIDs |-> IF u = 1 THEN <<"Juan", "Dela", "Cruz">>
                                  ELSE IF u = 2 THEN <<"Maria", "Santos">>
                                  ELSE NoName]
  /\ \E i \in MinuteInstants : clock = [d |-> 1, i |-> i]
  /\ pending = <<>>

NextTimes ==
  \/ \E uid \in Callers, okr \in BOOLEAN, oka \in BOOLEAN : Within(MaxRows, am_in(uid, okr, oka))
  \/ \E okr \in BOOLEAN : status(2, okr)
  \/ \E okr \in BOOLEAN : view_dtr(1, 2, okr)

SpecTimes == InitTimes /\ [][NextTimes]_vars

\* =================================================================
\* Properties
\* =================================================================
\* The record a log holds for (name, date): the fold of its rows in order.
RecordIn(log, name, date) ==
  FoldRecords(EmptyRecord, SelectSeq(log, LAMBDA r : r.name = name /\ r.ts = date))

\* The number of rows of a log for (name, date) with the given label.
CountEvents(log, name, date, label) ==
  Cardinality({ i \in DOMAIN log :
                  log[i].name = name /\ log[i].ts = date /\ log[i].label = label })

Flags == BOOLEAN

\* C1: am_in by a user whose reconstructed record for today has AM_IN is
\* refused and leaves the log unchanged; hence a second am_in by a user who
\* holds one AM_IN event today leaves exactly one AM_IN event for that user
\* and day.
C1_SecondClockInRefused ==
  [][ \A uid \in Callers, okr \in Flags, oka \in Flags :
        am_in(uid, okr, oka) =>
          LET name == get_user_name(uid)
          IN /\ Truthy(get_full_record(name, okr).AM_IN) =>
                  /\ sheet' = sheet
                  /\ am_in_result(uid, okr, oka).out = "You already clocked AM IN today."
             /\ CountEvents(sheet, name, today, "AM - Time In") = 1 =>
                  CountEvents(sheet', name, today, "AM - Time In") = 1 ]_vars

\* A slot holds a value: its text is not empty.
Present(v) == v # Empty

\* The slot preconditions of am_out, pm_in and pm_out.
Precondition(cmd, record) ==
  CASE cmd = "am_out" ->
         Present(record.AM_IN) /\ ~Present(record.AM_OUT) /\ ~Present(record.PM_OUT)
    [] cmd = "pm_in" ->
         Present(record.AM_OUT) /\ ~Present(record.PM_IN) /\ ~Present(record.PM_OUT)
    [] cmd = "pm_out" ->
         Present(record.PM_IN) /\ ~Present(record.PM_OUT)

\* The answers that refuse a clock transition.
Refusals ==
  { "You are not authorized to use the DTR system.",
    "You must clock AM IN first.", "You already clocked AM OUT today.",
    "You must clock AM OUT first.", "You already clocked PM IN today.",
    "You must clock PM IN first.", "Your work day is already complete." }

\* The row a clock command writes for a label at the current instant.
EventNow(name, label) == Row(today, name, label, time_for_sheets)

\* What a call decided respects the precondition on the record it read: a
\* failed precondition gives a refusal without rows, and rows are the one
\* event of the command.
Guarded(cmd, label, r, name, record) ==
  /\ ~Precondition(cmd, record) => r.rows = <<>> /\ ~r.warn /\ r.out \in Refusals
  /\ r.rows # <<>> => Precondition(cmd, record) /\ r.rows = << EventNow(name, label) >>

\* A step that is this call keeps the log when the precondition fails and
\* otherwise adds at most the command's event.
GuardedStep(cmd, label, name, record) ==
  IF Precondition(cmd, record)
    THEN sheet' \in {sheet, Append(sheet, EventNow(name, label))}
    ELSE UNCHANGED <<sheet, pending>>

\* C2: am_out, pm_in and pm_out append their event only when the record
\* reconstructed at the start of the call satisfies the precondition of the
\* transition; when it fails the call is refused and the log is unchanged.
\* A pm_out that resumes after its warning appends the row it built under
\* that record.
C2_GuardedAppend ==
  /\ [] (\A uid \in Callers, okr \in Flags, oka \in Flags :
           LET name == get_user_name(uid)
               record == get_full_record(name, okr)
           IN /\ Guarded("am_out", "AM - Time Out", am_out_result(uid, okr, oka), name, record)
              /\ Guarded("pm_in", "PM - Time In", pm_in_result(uid, okr, oka), name, record)
              /\ Guarded("pm_out", "PM - Time Out", pm_out_result(uid, okr, oka), name, record))
  /\ [][ \/ UNCHANGED <<sheet, pending>>
         \/ /\ \A uid \in Callers, okr \in Flags, oka \in Flags :
                 LET name == get_user_name(uid)
                     record == get_full_record(name, okr)
                 IN /\ am_out(uid, okr, oka) =>
                         GuardedStep("am_out", "AM - Time Out", name, record)
                    /\ pm_in(uid, okr, oka) =>
                         GuardedStep("pm_in", "PM - Time In", name, record)
                    /\ pm_out(uid, okr, oka) =>
                         GuardedStep("pm_out", "PM - Time Out", name, record)
            /\ \A i \in DOMAIN pending, oka \in Flags :
                 resume_after_warning(i, oka) /\ pending[i].cmd = "pm_out" =>
                   sheet' \in {sheet, Append(sheet, pending[i].row)}
       ]_vars

\* C2 witness: user 2 holds AM IN and a later AM OUT appended under the
\* precondition, and a further am_out is refused.
C2_Witness ==
  /\ Len(sheet) = 2
  /\ sheet[1].label = "AM - Time In" /\ sheet[2].label = "AM - Time Out"
  /\ sheet[1].name = get_user_name(2) /\ sheet[2].name = get_user_name(2)
  /\ sheet[1].input = Str("t12s", 12, 30, 0, "AM")
  /\ sheet[2].input = Str("t12s", 7, 30, 0, "AM")
  /\ am_out_result(2, TRUE, TRUE).out = "You already clocked AM OUT today."

\* The record a command proposes: the record it read with the slot set to
\* the current time.
Proposed(record, slot) == [record EXCEPT ![slot] = time_for_sheets]

\* C3: when the record am_out or pm_in proposes fails the sequence
\* validator, the call is refused and no event is appended.
C3_ValidatorBlocks ==
  /\ [] (\A uid \in Callers, okr \in Flags, oka \in Flags :
           LET record == get_full_record(get_user_name(uid), okr)
               a == am_out_result(uid, okr, oka)
               b == pm_in_result(uid, okr, oka)
           IN /\ validate_time_sequence(Proposed(record, "AM_OUT")) # "" =>
                   a.rows = <<>> /\ ~a.warn /\ a.out # "recorded"
              /\ validate_time_sequence(Proposed(record, "PM_IN")) # "" =>
                   b.rows = <<>> /\ ~b.warn /\ b.out # "recorded")
  /\ [][ \/ UNCHANGED <<sheet, pending>>
         \/ \A uid \in Callers, okr \in Flags, oka \in Flags :
              LET record == get_full_record(get_user_name(uid), okr)
              IN /\ validate_time_sequence(Proposed(record, "AM_OUT")) # "" =>
                      ~am_out(uid, okr, oka)
                 /\ validate_time_sequence(Proposed(record, "PM_IN")) # "" =>
                      ~pm_in(uid, okr, oka)
       ]_vars

\* C3 witness: user 2 holds an AM OUT that is not earlier than the current
\* time and asks for PM IN; the slot precondition holds, the validator
\* rejects the proposed record and pm_in answers with the validator's
\* message.
C3_Witness ==
  LET record == get_full_record(get_user_name(2), TRUE)
  IN /\ Precondition("pm_in", record)
     /\ validate_time_sequence(Proposed(record, "PM_IN")) = "PM IN must be after AM OUT."
     /\ pm_in_result(2, TRUE, TRUE).out = "PM IN must be after AM OUT."
     /\ pm_in_result(2, TRUE, TRUE).rows = <<>>

\* The store form H:MM:00 AM/PM of a time an admin typed as H:MM AM/PM.
StoreForm(v) == Str("t12s", v.h, v.m, 0, v.p)

\* C4: when the record pm_out or manual_entry proposes fails the sequence
\* validator and the other conditions of the command hold, the command still
\* goes on to its append: it sends the warning, and once the warning is sent
\* and the store accepts the append the event is in the log.
C4_ValidatorAdvisory ==
  /\ [] (\A uid \in Callers, okr \in Flags, oka \in Flags :
           LET name == get_user_name(uid)
               record == get_full_record(name, okr)
               r == pm_out_result(uid, okr, oka)
           IN /\ name # NoName
              /\ Precondition("pm_out", record)
              /\ validate_time_sequence(Proposed(record, "PM_OUT")) # ""
              => /\ r.warn
                 /\ r.out = "Time validation warning"
                 /\ r.rows = << EventNow(name, "PM - Time Out") >>)
  /\ [] (\A target \in Targets, time_type \in DOMAIN valid_types,
            time_value \in ManualTimes, okr \in Flags, oka \in Flags :
           LET name == format_name_with_initials(user_names[target])
               record == get_full_record(name, okr)
               proposed == [record EXCEPT ![Upper(time_type)] = StoreForm(time_value)]
               r == manual_entry_result(1, target, time_type, time_value, okr, oka)
           IN /\ user_names[target] # NoName
              /\ parse_time_from_string(time_value) # None
              /\ validate_time_sequence(proposed) # ""
              => /\ r.warn
                 /\ r.out = "Time Validation Warning"
                 /\ Len(r.rows) = 1
                 /\ r.rows[1].name = name
                 /\ r.rows[1].ts = today
                 /\ r.rows[1].label = valid_types[time_type]
                 /\ parse_time_from_string(r.rows[1].input)
                      = parse_time_from_string(time_value))
  /\ [] (\A i \in DOMAIN pending : pending[i].cmd \in {"pm_out", "manual_entry"})
  /\ [][ \/ UNCHANGED pending
         \/ \A i \in DOMAIN pending :
              resume_after_warning(i, TRUE) =>
                \E ts \in {pending[i].row.ts, today} :
                  sheet' = Append(sheet, [pending[i].row EXCEPT !.ts = ts])
       ]_vars

\* C4 witness: a pm_out of user 2 whose time is not later than the PM IN in
\* the log has sent its warning and stands before its append.
C4_Witness ==
  /\ Len(pending) = 1
  /\ pending[1].cmd = "pm_out"
  /\ pending[1].row.name = get_user_name(2)
  /\ pending[1].row.label = "PM - Time Out"
  /\ \E j \in DOMAIN sheet :
       /\ sheet[j].label = "PM - Time In"
       /\ sheet[j].name = pending[1].row.name
       /\ sheet[j].ts = pending[1].row.ts
       /\ parse_time_from_string(pending[1].row.input)
            <= parse_time_from_string(sheet[j].input)

\* The rows of the log for (name, date, slot), by their place in the log.
EventsOf(name, date, slot) ==
  { i \in DOMAIN sheet :
      sheet[i].name = name /\ sheet[i].ts = date /\ sheet[i].label = LabelOf[slot] }

Last(S) == CHOOSE i \in S : \A j \in S : j <= i

\* The text a record shows for a value of the Input Time column written by
\* the commands: H:MM:SS AM/PM is shown as H:MM AM/PM, N/A as it is.
Shown(v) == IF v.k = "t12s" THEN [v EXCEPT !.k = "t12", !.s = 0] ELSE v

\* C5: last write wins. Each slot of the reconstructed record is the value
\* of the last row of the log for that user, day and slot, whatever the
\* earlier rows hold, and empty when there is none.
C5_LastWriteWins ==
  \A name \in FoldNames, slot \in Slots :
    LET events == EventsOf(name, today, slot)
        record == get_full_record(name, TRUE)
    IN IF events = {} THEN record[slot] = Empty
       ELSE record[slot] = Shown(sheet[Last(events)].input)

\* C5 witness: a log with two rows E1 and later E2 of one user, day and slot
\* with different values, read on that day: the record shows E2's value.
C5_Witness ==
  \E name \in FoldNames, slot \in Slots :
    \E i \in EventsOf(name, today, slot), j \in EventsOf(name, today, slot) :
      /\ i < j
      /\ j = Last(EventsOf(name, today, slot))
      /\ Shown(sheet[i].input) # Shown(sheet[j].input)
      /\ get_full_record(name, TRUE)[slot] = Shown(sheet[j].input)

\* C6: the log is append-only. Every step of every operation keeps the rows
\* of the log, unmodified and in their order, as a prefix of the new log.
C6_AppendOnly ==
  [][ /\ Len(sheet') >= Len(sheet)
      /\ SubSeq(sheet', 1, Len(sheet)) = sheet ]_vars

\* C6 witness: the log is full, and the rows of user 2 are still in it after
\* a roster command changed the roster and a handler is suspended.
C6_Witness ==
  /\ Len(sheet) = MaxRows
  /\ user_names[3] # NoName
  /\ pending # <<>>

\* C7: the two half-day rows are atomic: a half_day call appends both of its
\* N/A rows or none.
C7_HalfDayAtomic ==
  [][ \A uid \in Callers, half \in Halves, okr \in Flags, ok1 \in Flags, ok2 \in Flags :
        half_day(uid, half, okr, ok1, ok2) => Len(sheet') - Len(sheet) \in {0, 2} ]_vars

\* C8: half_day appends only under its precondition on the user's record
\* for today (morning: AM_IN and AM_OUT present, PM_IN and PM_OUT empty;
\* afternoon: all four slots empty), and after a call that succeeded the two
\* slots of the skipped half read N/A and the other two are unchanged.
C8_HalfDayGuarded ==
  [][ \A uid \in Callers, half \in {"morning", "afternoon"},
         okr \in Flags, ok1 \in Flags, ok2 \in Flags :
        half_day(uid, half, okr, ok1, ok2) =>
          LET name == get_user_name(uid)
              before == RecordIn(sheet, name, today)
              after == RecordIn(sheet', name, today)
              done == half_day_result(uid, half, okr, ok1, ok2).out
                        \in {"Half-Day Recorded (Morning)", "Afternoon Half-Day Set"}
          IN /\ half = "morning" =>
                  /\ Present(before.AM_IN) /\ Present(before.AM_OUT)
                  /\ ~Present(before.PM_IN) /\ ~Present(before.PM_OUT)
                  /\ done => /\ after.PM_IN = NA /\ after.PM_OUT = NA
                             /\ after.AM_IN = before.AM_IN /\ after.AM_OUT = before.AM_OUT
             /\ half = "afternoon" =>
                  /\ \A k \in Slots : ~Present(before[k])
                  /\ done => /\ after.AM_IN = NA /\ after.AM_OUT = NA
                             /\ after.PM_IN = before.PM_IN /\ after.PM_OUT = before.PM_OUT
    ]_vars

\* The messages that report a failure of the store.
StoreFailureMessages ==
  { "Failed to record AM IN.", "Failed to record AM OUT.", "Failed to record PM IN.",
    "Failed to record PM OUT.", "Failed to record half-day.", "Failed to record." }

\* C9: a clock transition of a roster user during which the store fails to
\* answer the query appends nothing and answers with a store failure.
C9_ReadFailureAborts ==
  [][ \A uid \in Callers, oka \in Flags :
        /\ am_in(uid, FALSE, oka) /\ get_user_name(uid) # NoName =>
             /\ sheet' = sheet
             /\ am_in_result(uid, FALSE, oka).out \in StoreFailureMessages
        /\ am_out(uid, FALSE, oka) /\ get_user_name(uid) # NoName =>
             /\ sheet' = sheet
             /\ am_out_result(uid, FALSE, oka).out \in StoreFailureMessages
        /\ pm_in(uid, FALSE, oka) /\ get_user_name(uid) # NoName =>
             /\ sheet' = sheet
             /\ pm_in_result(uid, FALSE, oka).out \in StoreFailureMessages
        /\ pm_out(uid, FALSE, oka) /\ get_user_name(uid) # NoName =>
             /\ sheet' = sheet
             /\ pm_out_result(uid, FALSE, oka).out \in StoreFailureMessages
        /\ \A half \in {"morning", "afternoon"}, ok2 \in Flags :
             half_day(uid, half, FALSE, oka, ok2) /\ get_user_name(uid) # NoName =>
               /\ sheet' = sheet
               /\ half_day_result(uid, half, FALSE, oka, ok2).out \in StoreFailureMessages ]_vars

ClockCommands == {"am_in", "am_out", "pm_in", "pm_out"}

\* C10: two invocations of the same clock command by one user never both
\* stand between their precondition check and their append.
C10_Serialized ==
  \A i \in DOMAIN pending, j \in DOMAIN pending :
    i # j => ~ ( /\ pending[i].cmd \in ClockCommands
                 /\ pending[i].cmd = pending[j].cmd
                 /\ pending[i].uid = pending[j].uid )

\* The roster: the users the reminder pass goes through.
Roster == { uid \in UIDs : user_names[uid] # NoName }

\* The current instant in seconds since midnight.
NowSeconds == now.hour * 3600 + now.minute * 60

IsTime(v) == parse_time_from_string(v) # None

\* The text of the reminder.
ReminderText == "Don't forget to !pm_out to complete your DTR."

\* The reminder condition on a record: AM_IN, AM_OUT and PM_IN are times,
\* PM_OUT is empty, and the time left to the required hours, with the
\* current instant in the place of PM_OUT, is at most the lead time.
ReminderDue(record) ==
  /\ IsTime(record.AM_IN) /\ IsTime(record.AM_OUT) /\ IsTime(record.PM_IN)
  /\ record.PM_OUT = Empty
  /\ REQUIRED_HOURS * 3600
       - ( (parse_time_from_string(record.AM_OUT) - parse_time_from_string(record.AM_IN))
           + (NowSeconds - parse_time_from_string(record.PM_IN)) )
     <= REMINDER_THRESHOLD_MINUTES * 60

\* C11: a reminder is emitted to a user only if, in the record the pass
\* reconstructed, AM_IN, AM_OUT and PM_IN are present, PM_OUT is empty,
\* neither PM slot is N/A and at most 5 minutes are left to the 8 hours;
\* whenever one of these fails, and so whenever PM_OUT is set, the pass
\* emits nothing for that user.
C11_ReminderOnlyWhenDue ==
  \A uid \in Roster, okr \in Flags, found \in Flags :
    LET record == get_full_record(format_name_with_initials(user_names[uid]), okr)
    IN reminder_result(uid, okr, found).out = ReminderText =>
         /\ Present(record.AM_IN) /\ Present(record.AM_OUT) /\ Present(record.PM_IN)
         /\ record.PM_OUT = Empty
         /\ record.PM_IN # NA /\ record.PM_OUT # NA
         /\ ReminderDue(record)

\* C11 witness: user 2 has clocked out with at least 8 hours on the record,
\* the pass finds the account and reads the record, and emits nothing.
C11_Witness ==
  LET record == get_full_record(get_user_name(2), TRUE)
  IN /\ \A k \in Slots : IsTime(record[k])
     /\ calculate_hours_worked(record) # None
     /\ calculate_hours_worked(record) >= REQUIRED_HOURS * 100
     /\ reminder_result(2, TRUE, TRUE).out = ""

\* C12: a user who stays clocked in (PM_IN present, PM_OUT empty) once at
\* most 5 minutes are left to the 8 hours receives the one reminder of the
\* day: the pass that finds the account, reads the record and finds the
\* reminder due emits it. (The program keeps no record of the reminders it
\* sent, so there is no earlier reminder a pass could tell from.)
C12_ReminderWhenDue ==
  \A uid \in Roster :
    LET record == get_full_record(format_name_with_initials(user_names[uid]), TRUE)
    IN ReminderDue(record) => reminder_result(uid, TRUE, TRUE).out = ReminderText

\* The record of roster user v for today, as a read that is answered gives it.
RecordOf(v) == get_full_record(format_name_with_initials(user_names[v]), TRUE)

\* C14: a transition performed by one roster user never changes the
\* reconstructed daily record of a different roster user (every event counts
\* towards the record of exactly one user): a clock or half-day command of
\* user 2, or the rest of one after its warning, leaves the record of every
\* other roster user as it was.
C14_OtherUsersUntouched ==
  [][ \/ UNCHANGED sheet
      \/ ( \/ \E oka \in Flags : am_in(2, TRUE, oka)
           \/ \E oka \in Flags : am_out(2, TRUE, oka)
           \/ \E oka \in Flags : pm_in(2, TRUE, oka)
           \/ \E oka \in Flags : pm_out(2, TRUE, oka)
           \/ \E half \in Halves, ok1 \in Flags, ok2 \in Flags : half_day(2, half, TRUE, ok1, ok2)
           \/ \E i \in DOMAIN pending, oka \in Flags :
                pending[i].cmd = "pm_out" /\ pending[i].uid = 2 /\ resume_after_warning(i, oka) )
         => \A v \in Roster \ {2} : RecordOf(v)' = RecordOf(v) ]_vars

\* The formatted names of the roster.
RosterNames == { format_name_with_initials(user_names[v]) : v \in Roster }

\* The rows a step added at the end of the log (none when it added none).
Added == SubSeq(sheet', Len(sheet) + 1, Len(sheet'))

\* C15: reconstruction for (user, today) depends only on the log events
\* whose name is the user's and whose timestamp date is today. A record
\* with no such event is all-empty (so a new day starts from an all-empty
\* record), and a step that keeps the day and appends only events of other
\* names or dated on another day, or appends nothing, leaves the record as
\* it was.
C15_FoldOverUserAndDay ==
  /\ [] (\A name \in RosterNames :
           (\A i \in DOMAIN sheet : sheet[i].name # name \/ sheet[i].ts # today)
             => get_full_record(name, TRUE) = EmptyRecord)
  /\ [][ \/ UNCHANGED <<sheet, clock>>
         \/ \A name \in RosterNames :
              ( /\ today' = today
                /\ Len(sheet') >= Len(sheet)
                /\ SubSeq(sheet', 1, Len(sheet)) = sheet
                /\ \A i \in DOMAIN Added : Added[i].name # name \/ Added[i].ts # today )
              => get_full_record(name, TRUE)' = get_full_record(name, TRUE) ]_vars

\* C15 witness: on the second day a row dated on the first day (a pm_out
\* that was suspended over midnight) came into the log after a row of the
\* second day; user 2 has rows of the first day only and an all-empty
\* record, and user 1 has today's AM_IN.
C15_Witness ==
  /\ clock.d = 2
  /\ \E i \in DOMAIN sheet, j \in DOMAIN sheet :
       /\ i < j
       /\ sheet[i].ts = Dates[2] /\ sheet[i].name = get_user_name(1)
       /\ sheet[j].ts = Dates[1] /\ sheet[j].name = get_user_name(2)
  /\ get_full_record(get_user_name(2), TRUE) = EmptyRecord
  /\ Present(get_full_record(get_user_name(1), TRUE).AM_IN)

\* The row manual_entry writes for a slot and a time the admin typed.
ManualRow(target, time_type, time_value) ==
  Row(today, format_name_with_initials(user_names[target]), valid_types[time_type],
      StoreForm(time_value))

\* C16: manual_entry by an admin for a roster user with a valid slot name
\* and a time that parses appends one event for that slot, also when the
\* slot already holds a value (at once, or after its warning when the
\* proposed record fails the validator; the store accepting the append),
\* and the next reconstruction shows the new value in that slot. When the
\* target is not in the roster, the slot name is invalid or the time does
\* not parse, nothing is appended.
C16_ManualEntryOverwrites ==
  /\ [] (\A admin \in ADMIN_IDS, target \in UIDs, time_type \in TimeTypes,
            time_value \in ManualTimes, okr \in Flags, oka \in Flags :
           LET r == manual_entry_result(admin, target, time_type, time_value, okr, oka)
           IN IF \/ user_names[target] = NoName
                 \/ time_type \notin DOMAIN valid_types
                 \/ parse_time_from_string(time_value) = None
                THEN r.rows = <<>> /\ ~r.warn
                ELSE oka => r.rows = << ManualRow(target, time_type, time_value) >>)
  /\ [][ \/ UNCHANGED <<sheet, pending>>
         \/ /\ \A admin \in ADMIN_IDS, target \in Roster, time_type \in DOMAIN valid_types,
                  okr \in Flags :
                 LET time_value == Str("t12", 12, 0, 0, "PM")
                 IN manual_entry(admin, target, time_type, time_value, okr, TRUE)
                    /\ ~manual_entry_result(admin, target, time_type, time_value, okr, TRUE).warn
                    => /\ sheet' = Append(sheet, ManualRow(target, time_type, time_value))
                       /\ \A name \in RosterNames :
                            name = format_name_with_initials(user_names[target])
                            => get_full_record(name, TRUE)'[Upper(time_type)] = time_value
            /\ \A i \in DOMAIN pending :
                 pending[i].cmd = "manual_entry" /\ resume_after_warning(i, TRUE)
                 => LET row == [pending[i].row EXCEPT !.ts = today]
                    IN /\ sheet' = Append(sheet, row)
                       /\ \A slot \in Slots, name \in RosterNames :
                            LabelOf[slot] = row.label /\ name = row.name
                            => get_full_record(name, TRUE)'[slot] = Shown(row.input) ]_vars

\* C16 witness: user 2 clocked AM IN and AM OUT, the admin then entered
\* am_out 12:00 PM for them, and the record shows 12:00 PM as AM_OUT.
C16_Witness ==
  /\ Len(sheet) = 3
  /\ sheet[2] = Row(today, get_user_name(2), "AM - Time Out", Str("t12s", 7, 30, 0, "AM"))
  /\ sheet[3] = Row(today, get_user_name(2), "AM - Time Out", Str("t12s", 12, 0, 0, "PM"))
  /\ get_full_record(get_user_name(2), TRUE).AM_OUT = Str("t12", 12, 0, 0, "PM")

\* The adjacent pairs of slots with the message that names each.
AdjacentPairs ==
  { <<"AM_IN", "AM_OUT", "AM OUT must be after AM IN.">>,
    <<"AM_OUT", "PM_IN", "PM IN must be after AM OUT.">>,
    <<"PM_IN", "PM_OUT", "PM OUT must be after PM IN.">> }

\* Both slots of the pair hold times and the later slot's time is not after
\* the earlier slot's.
NonIncreasing(record, pair) ==
  /\ IsTime(record[pair[1]]) /\ IsTime(record[pair[2]])
  /\ parse_time_from_string(record[pair[2]]) <= parse_time_from_string(record[pair[1]])

\* The records the validator is given for user 2: the record of the log and
\* the record pm_out proposes from it.
Validated ==
  LET record == get_full_record(get_user_name(2), TRUE)
  IN { record, [record EXCEPT !.PM_OUT = time_for_sheets] }

\* C17: the validator returns Ok for every record whose four slots are
\* times strictly increasing in slot order; for every record in which one
\* adjacent pair is non-increasing (equal or decreasing) and no other is, it
\* returns the error that names that pair; a slot that is empty or N/A is
\* skipped, so a record with no non-increasing adjacent pair of times is Ok.
C17_ValidatorVerdict ==
  \A record \in Validated :
    LET verdict == validate_time_sequence(record)
        t(k) == parse_time_from_string(record[k])
    IN /\ ( /\ \A k \in Slots : IsTime(record[k])
            /\ t("AM_IN") < t("AM_OUT") /\ t("AM_OUT") < t("PM_IN")
            /\ t("PM_IN") < t("PM_OUT") ) => verdict = ""
       /\ \A pair \in AdjacentPairs :
            ( /\ NonIncreasing(record, pair)
              /\ \A other \in AdjacentPairs \ {pair} : ~NonIncreasing(record, other) )
            => verdict = pair[3]
       /\ (\A pair \in AdjacentPairs : ~NonIncreasing(record, pair)) => verdict = ""

\* C17 witness: the record of user 2 holds four times of which only AM_OUT
\* and PM_IN are not increasing (they are equal), and the validator answers
\* with the message of that pair.
C17_Witness ==
  LET record == get_full_record(get_user_name(2), TRUE)
  IN /\ \A k \in Slots : IsTime(record[k])
     /\ parse_time_from_string(record.AM_IN) < parse_time_from_string(record.AM_OUT)
     /\ parse_time_from_string(record.AM_OUT) = parse_time_from_string(record.PM_IN)
     /\ parse_time_from_string(record.PM_IN) < parse_time_from_string(record.PM_OUT)
     /\ validate_time_sequence(record) = "PM IN must be after AM OUT."

\* The two spans of a record whose four slots are times, in seconds.
MorningSpan(record) ==
  parse_time_from_string(record.AM_OUT) - parse_time_from_string(record.AM_IN)

AfternoonSpan(record) ==
  parse_time_from_string(record.PM_OUT) - parse_time_from_string(record.PM_IN)

\* All four slots are times and neither span is negative.
Computable(record) ==
  /\ \A k \in Slots : IsTime(record[k])
  /\ MorningSpan(record) >= 0 /\ AfternoonSpan(record) >= 0

\* C18 as stated: calculate_hours_worked returns (AM_OUT - AM_IN) +
\* (PM_OUT - PM_IN) in hours when all four slots parse as times and both
\* spans are non-negative, and None whenever a slot is empty, N/A or
\* unparseable or a span is negative. (The result is in hundredths of an
\* hour, 36 seconds each.)
C18_ExactHours ==
  \A record \in Validated :
    IF Computable(record)
      THEN calculate_hours_worked(record) * 36 = MorningSpan(record) + AfternoonSpan(record)
      ELSE calculate_hours_worked(record) = None

\* C18 amended: the sum of the two spans in hours rounded to two decimals
\* when all four slots parse as times and both spans are non-negative, None
\* otherwise.
C18_RoundedHours ==
  \A record \in Validated :
    IF Computable(record)
      THEN calculate_hours_worked(record)
             = RoundHalfEven(MorningSpan(record) + AfternoonSpan(record), 36)
      ELSE calculate_hours_worked(record) = None

\* C18 witness: the record of user 2 holds four times with non-negative
\* spans whose sum is not a whole number of hundredths of an hour, and the
\* hours are that sum rounded.
C18_Witness ==
  LET record == get_full_record(get_user_name(2), TRUE)
  IN /\ Computable(record)
     /\ (MorningSpan(record) + AfternoonSpan(record)) % 36 # 0
     /\ calculate_hours_worked(record)
          = RoundHalfEven(MorningSpan(record) + AfternoonSpan(record), 36)

\* What the claims expect pm_out to report for a record: the total with the
\* requirement line when the hours are computable, otherwise Complete DTR
\* for today! without a duration.
ExpectedReport(record) ==
  LET hours == calculate_hours_worked(record)
  IN IF Computable(record)
       THEN IF hours >= REQUIRED_HOURS * 100
              THEN Report("total", format_hours_display(hours * 36),
                          "Completed 8-hour requirement!", NoDisplay)
              ELSE Report("total", format_hours_display(hours * 36), "Undertime",
                          format_hours_display((REQUIRED_HOURS * 100 - hours) * 36))
       ELSE Report("complete", NoDisplay, "", NoDisplay)

\* C19: after a successful pm_out (at once, or resumed after its warning),
\* the response, made from the record read after the append, reports the
\* total and 'requirement met' when the hours of the new record are
\* computable and at least 8, the total and the undertime of 8 minus the
\* hours when they are computable and less, and the day as complete without
\* a duration when they are not computable.
C19_PmOutReport ==
  [][ \/ UNCHANGED sheet
      \/ \A name \in RosterNames :
           ( /\ name = get_user_name(2)
             /\ \/ \E okr \in Flags : pm_out(2, okr, TRUE)
                \/ \E i \in DOMAIN pending :
                     pending[i].cmd = "pm_out" /\ pending[i].uid = 2
                     /\ resume_after_warning(i, TRUE) )
           => pm_out_report(get_full_record(name, TRUE))'
                = ExpectedReport(get_full_record(name, TRUE))' ]_vars

\* A morning half-day: both PM slots are N/A and both AM slots are times; an
\* afternoon half-day: both AM slots are N/A and both PM slots are times.
MorningHalfDay(record) ==
  /\ record.PM_IN = NA /\ record.PM_OUT = NA
  /\ IsTime(record.AM_IN) /\ IsTime(record.AM_OUT)

AfternoonHalfDay(record) ==
  /\ record.AM_IN = NA /\ record.AM_OUT = NA
  /\ IsTime(record.PM_IN) /\ IsTime(record.PM_OUT)

\* The half-day total of the half that was worked.
HalfDayTotal(record) ==
  IF MorningHalfDay(record)
    THEN Report("half-day", format_hours_display(MorningSpan(record)), "", NoDisplay)
    ELSE Report("half-day", format_hours_display(AfternoonSpan(record)), "", NoDisplay)

\* C20: for every record in which one half's two slots are both N/A and the
\* other half's two slots are times, morning and afternoon half-day alike,
\* the hours report of view_dtr and of status is the span of the other half,
\* labelled as a half-day total, without the 8-hour requirement; the answer
\* of half_day morning reports the morning span in the same way.
C20_HalfDayReport ==
  LET record == get_full_record(get_user_name(2), TRUE)
  IN /\ (MorningHalfDay(record) \/ AfternoonHalfDay(record)) =>
          /\ view_dtr_result(1, 2, TRUE).out = "shown"
          /\ view_dtr_report(record) = HalfDayTotal(record)
          /\ status_result(2, TRUE).out = "shown"
          /\ status_report(record) = HalfDayTotal(record)
     /\ ( /\ IsTime(record.AM_IN) /\ IsTime(record.AM_OUT)
          /\ half_day_result(2, "morning", TRUE, TRUE, TRUE).out = "Half-Day Recorded (Morning)" )
        => half_day_report(record)
             = Report("half-day", format_hours_display(MorningSpan(record)), "", NoDisplay)

\* Minutes since midnight of an instant of TimePoints.
MinuteOfDay(i) == TimePoints[i][1] * 60 + TimePoints[i][2]

\* The bucket of a moment: before 7:44 at the instant early, at or after
\* 10:00 at the instant late, between.
BucketAt(early, late) ==
  IF MinuteOfDay(early) < 7 * 60 + 44 THEN "morning_person"
  ELSE IF MinuteOfDay(late) >= 10 * 60 THEN "late"
  ELSE "normal"

\* The bucket of the current minute.
Bucket == BucketAt(clock.i, clock.i)

\* The one row of a successful am_in: timestamp, name, label and time.
AmInRow(uid) == Row(today, get_user_name(uid), "AM - Time In", time_for_sheets)

\* C21 (as stated): a successful am_in classifies the moment into exactly
\* one of three buckets in priority order, morning person before 7:44,
\* otherwise late at or after 10:00 (10:00 itself is late), otherwise normal,
\* whatever messages.json holds and whenever the handler reads the clock; the
\* classification selects the response and is not written to the log.
C21_ThreeBuckets ==
  \A okr \in Flags, messages \in MessageFiles, later \in LaterInstants :
    am_in_result(2, okr, TRUE).out = "recorded" =>
      /\ am_in_flavor(messages, later) = Bucket
      /\ am_in_result(2, okr, TRUE).rows = << AmInRow(2) >>

\* C21 (amended): a successful am_in takes the bucket of the moment with
\* "before 7:44" decided by the clock read after the append and "at or after
\* 10:00" by the clock read before it (the bucket of the minute when both
\* reads fall in one minute). It answers with that bucket if messages.json
\* has a message for it; if not, with late when the bucket is morning person
\* and the earlier read was at or after 10:00 (midnight passed in between)
\* and there is a late message, else with normal if there is a normal
\* message, else with no line. The row it appends is the same in every
\* bucket and holds nothing of the classification.
C21_BucketsWithMessages ==
  \A okr \in Flags, messages \in MessageFiles, later \in LaterInstants :
    am_in_result(2, okr, TRUE).out = "recorded" =>
      /\ am_in_flavor(messages, later)
           = LET bucket == BucketAt(later, clock.i)
             IN IF messages[bucket] THEN bucket
                ELSE IF /\ bucket = "morning_person"
                        /\ MinuteOfDay(clock.i) >= 10 * 60
                        /\ messages["late"]
                  THEN "late"
                ELSE IF messages["normal"] THEN "normal"
                ELSE "none"
      /\ am_in_flavor([k \in MessageKeys |-> TRUE], clock.i) = Bucket
      /\ am_in_result(2, okr, TRUE).rows = << AmInRow(2) >>
      /\ DOMAIN AmInRow(2) = {"ts", "name", "label", "input"}

\* C21 witness: user 2 clocked in at 10:00 sharp, the row is in the log, and
\* with a message in every list the answer is a late one.
C21_Witness ==
  /\ now = [hour |-> 10, minute |-> 0]
  /\ sheet = << AmInRow(2) >>
  /\ am_in_flavor([k \in MessageKeys |-> TRUE], clock.i) = "late"

\* C22: round trip of time formatting. At every minute of the day (hours 0
\* to 23, 12:xx AM and 12:xx PM among them) the store form H:MM:00 AM/PM and
\* the display form H:MM AM/PM of the current time both parse to the hour
\* and minute of the current time, and so do the time of a row written this
\* minute and the display form the reconstructor makes of it.
C22_RoundTrip ==
  LET t == now.hour * 3600 + now.minute * 60
      record == get_full_record(get_user_name(2), TRUE)
  IN /\ parse_time_from_string(strip_leading_apostrophe(time_for_sheets)) = t
     /\ parse_time_from_string(time_for_discord) = t
     /\ \A i \in DOMAIN sheet : parse_time_from_string(sheet[i].input) = t
     /\ Present(record.AM_IN) =>
          record.AM_IN = time_for_discord /\ parse_time_from_string(record.AM_IN) = t

\* C22 witness: a row written in the hour after midnight, stored as
\* 12:MM:00 AM and shown as 12:MM AM.
C22_Witness ==
  /\ now.hour = 0
  /\ sheet # <<>>
  /\ sheet[1].input.h = 12 /\ sheet[1].input.p = "AM"
  /\ get_full_record(get_user_name(2), TRUE).AM_IN = time_for_discord

\* The reminder goes out to the user: a pass is suspended in the send of
\* the notification to uid.
Reminded(uid) ==
  \E i \in DOMAIN pending : pending[i].cmd = "reminder_loop" /\ pending[i].uid = uid

\* C23: the reminder scheduler runs as a recurring task once the bot is
\* running: whenever roster user 2 (whose account can be reached) has AM_IN,
\* AM_OUT and PM_IN as times, PM_OUT empty and at most 5 minutes left to the
\* 8 hours, the reminder is eventually sent to them, or they clock out.
C23_ReminderEventually ==
  ReminderDue(RecordOf(2)) ~> (Reminded(2) \/ Present(RecordOf(2).PM_OUT))

\* C25: read-only operations leave the state unchanged: status, view_dtr
\* and a reminder pass decide no row in any state, for any caller, target and
\* store outcome, and a step of one of them leaves the event log and the
\* roster as they were.
C25_ReadOnly ==
  /\ [] ( /\ \A uid \in UIDs, okr \in Flags : status_result(uid, okr).rows = <<>>
          /\ \A admin \in UIDs, target \in UIDs, okr \in Flags :
               view_dtr_result(admin, target, okr).rows = <<>>
          /\ \A uid \in Roster, okr \in Flags, found \in Flags :
               reminder_result(uid, okr, found).rows = <<>> )
  /\ [][ \/ UNCHANGED <<sheet, user_names>>
         \/ ~ \/ \E uid \in UIDs, okr \in Flags : status(uid, okr)
              \/ \E admin \in UIDs, target \in UIDs, okr \in Flags : view_dtr(admin, target, okr)
              \/ \E uid \in UIDs, okr \in Flags, found \in Flags : reminder_loop(uid, okr, found)
       ]_vars

\* C25 witness: the log is full, user 3 is in the roster, and status and
\* view_dtr show user 2's record while the reminder pass goes by it.
C25_Witness ==
  /\ Len(sheet) = MaxRows
  /\ user_names[3] # NoName
  /\ status_result(2, TRUE).out = "shown"
  /\ view_dtr_result(1, 2, TRUE).out = "shown"
  /\ reminder_result(2, TRUE, TRUE).out = ""

\* Pairs of slots, the first before the second in slot order.
SlotPairs ==
  { <<"AM_IN", "AM_OUT">>, <<"AM_IN", "PM_IN">>, <<"AM_IN", "PM_OUT">>,
    <<"AM_OUT", "PM_IN">>, <<"AM_OUT", "PM_OUT">>, <<"PM_IN", "PM_OUT">> }

\* C26: validate_time_sequence ensures the order AM_IN < AM_OUT < PM_IN <
\* PM_OUT: whenever it returns (True, None), every two slots of the record
\* that hold parseable times are strictly increasing in slot order, the
\* pairs that are not adjacent included (AM_IN and PM_IN around an AM_OUT
\* that is empty or N/A).
C26_ValidatedIsOrdered ==
  \A record \in Validated :
    validate_time_sequence(record) = "" =>
      \A pair \in SlotPairs :
        IsTime(record[pair[1]]) /\ IsTime(record[pair[2]]) =>
          parse_time_from_string(record[pair[1]]) < parse_time_from_string(record[pair[2]])

\* The callers that are not in the roster, and those that are no admins.
Strangers == { uid \in UIDs : user_names[uid] = NoName }
NonAdmins == UIDs \ ADMIN_IDS

\* A handler decided to write nothing, now or after a warning.
NoWrite(r) == r.rows = <<>> /\ ~r.warn

RosterInputs == { <<"Maria", "Cruz", "Santos">>, <<"Carlos", "Santos">> }

\* C27: unauthorized callers change nothing. A clock or half-day command of
\* a caller whose id is not in the roster decides no row, whatever the store
\* answers; manual_entry of a caller who is not an admin decides no row; and
\* no step of these, nor of add_user, change_name or remove_user issued by a
\* caller who is not an admin, changes the log or the roster.
C27_UnauthorizedChangeNothing ==
  /\ [] ( \A uid \in Strangers, okr \in Flags, oka \in Flags :
            /\ NoWrite(am_in_result(uid, okr, oka))
            /\ NoWrite(am_out_result(uid, okr, oka))
            /\ NoWrite(pm_in_result(uid, okr, oka))
            /\ NoWrite(pm_out_result(uid, okr, oka))
            /\ \A half \in Halves, ok2 \in Flags :
                 NoWrite(half_day_result(uid, half, okr, oka, ok2)) )
  /\ [] ( \A admin \in NonAdmins, target \in UIDs, time_type \in TimeTypes,
             time_value \in ManualTimes, okr \in Flags, oka \in Flags :
            NoWrite(manual_entry_result(admin, target, time_type, time_value, okr, oka)) )
  /\ [][ \/ UNCHANGED <<sheet, user_names>>
         \/ ~ \/ \E uid \in Strangers, okr \in Flags, oka \in Flags :
                   \/ am_in(uid, okr, oka) \/ am_out(uid, okr, oka)
                   \/ pm_in(uid, okr, oka) \/ pm_out(uid, okr, oka)
                   \/ \E half \in Halves, ok2 \in Flags : half_day(uid, half, okr, oka, ok2)
              \/ \E admin \in NonAdmins, target \in UIDs :
                   \/ \E full_name \in RosterInputs :
                        add_user(admin, target, full_name) \/ change_name(admin, target, full_name)
                   \/ remove_user(admin, target)
                   \/ \E time_type \in TimeTypes, time_value \in ManualTimes,
                         okr \in Flags, oka \in Flags :
                        manual_entry(admin, target, time_type, time_value, okr, oka)
       ]_vars

\* C27 witness: user 3 is not in the roster and user 2 is no admin; the log
\* holds a row, manual_entry of the admin is accepted, am_in of user 3 and
\* manual_entry of user 2 are turned away.
C27_Witness ==
  /\ 3 \in Strangers
  /\ sheet # <<>>
  /\ am_in_result(3, TRUE, TRUE).out = "You are not authorized to use the DTR system."
  /\ manual_entry_result(2, 2, "pm_in", Str("t12", 12, 0, 0, "PM"), TRUE, TRUE).out
       = "This command is only available to admins."
  /\ manual_entry_result(1, 2, "pm_in", Str("t12", 12, 0, 0, "PM"), TRUE, TRUE).rows # <<>>

\* The formatted names of the users whose days SpecClock follows.
ClockNames == { get_user_name(uid) : uid \in ClockUsers }

\* The days the clock has reached.
DaysSoFar == { Dates[d] : d \in 1..clock.d }

\* C28: without manual_entry, with reads answered and the roster as it is,
\* the non-empty slots of each user's record for each day form a prefix of
\* AM_IN, AM_OUT, PM_IN, PM_OUT: PM_OUT present implies PM_IN present, PM_IN
\* present implies AM_OUT present, AM_OUT present implies AM_IN present.
C28_SlotsFormPrefix ==
  \A name \in ClockNames, date \in DaysSoFar :
    LET record == RecordIn(sheet, name, date)
    IN /\ Present(record.PM_OUT) => Present(record.PM_IN)
       /\ Present(record.PM_IN) => Present(record.AM_OUT)
       /\ Present(record.AM_OUT) => Present(record.AM_IN)

\* C28 witness: on the second day, a user's record of the first day holds
\* four times, PM OUT written after the warning in the minute of PM IN.
C28_Witness ==
  /\ clock.d = 2
  /\ \E name \in ClockNames :
       LET record == RecordIn(sheet, name, Dates[1])
       IN \A k \in Slots : IsTime(record[k])

\* C29: the day is frozen after PM OUT. In every reachable state, those
\* that manual_entry produced included, once the record of a user for today
\* has a non-empty PM_OUT, no am_in, am_out, pm_in, pm_out or half_day of
\* that user decides a row (reads answered).
C29_FrozenAfterPmOut ==
  \A uid \in Callers :
    Present(get_full_record(get_user_name(uid), TRUE).PM_OUT) =>
      \A oka \in Flags :
        /\ NoWrite(am_in_result(uid, TRUE, oka))
        /\ NoWrite(am_out_result(uid, TRUE, oka))
        /\ NoWrite(pm_in_result(uid, TRUE, oka))
        /\ NoWrite(pm_out_result(uid, TRUE, oka))
        /\ \A half \in Halves, ok2 \in Flags :
             NoWrite(half_day_result(uid, half, TRUE, oka, ok2))

\* C30: without manual_entry, with the clock moving forward within the day
\* and reads answered, each user's record of each day satisfies the blocking
\* order rules: AM_OUT is after AM_IN when both hold times, and PM_IN is
\* after AM_OUT when both hold times.
C30_BlockingOrder ==
  \A name \in ClockNames, date \in DaysSoFar :
    LET record == RecordIn(sheet, name, date)
    IN /\ IsTime(record.AM_IN) /\ IsTime(record.AM_OUT) =>
            parse_time_from_string(record.AM_OUT) > parse_time_from_string(record.AM_IN)
       /\ IsTime(record.AM_OUT) /\ IsTime(record.PM_IN) =>
            parse_time_from_string(record.PM_IN) > parse_time_from_string(record.AM_OUT)

\* C30 witness: a user's record of today holds AM_IN, AM_OUT and PM_IN as
\* times, and am_out of the other user is refused in the minute of that
\* user's AM_IN.
C30_Witness ==
  \E u \in ClockUsers, v \in ClockUsers :
    LET record == RecordOf(u)
    IN /\ IsTime(record.AM_IN) /\ IsTime(record.AM_OUT) /\ IsTime(record.PM_IN)
       /\ u # v
       /\ am_out_result(v, TRUE, TRUE).out = "AM OUT must be after AM IN."

\* C31: in every state reached by am_in, am_out, pm_in, pm_out and half_day
\* in any sequence and interleaving, with reads answered and no
\* manual_entry, the log holds at most one event per user name, date and
\* slot.
C31_OneEventPerSlot ==
  \A name \in ClockNames, date \in DaysSoFar, slot \in Slots :
    CountEvents(sheet, name, date, LabelOf[slot]) <= 1
====
